---- MODULE Spec2Model ----
(***************************************************************************)
(* ElasticSeer: incident registry, remediation pipeline, approval gate and *)
(* observer loop, modelled from backend/app/api/incident_management.py,    *)
(* backend/app/api/observer_api.py and                                     *)
(* backend/app/services/observer_engine.py.                                *)
(*                                                                         *)
(* Strings that the code parses or formats (incident ids) are sequences of *)
(* one-character strings, so that split / isdigit / int / format are       *)
(* computed and not assumed.                                               *)
(***************************************************************************)
EXTENDS Integers, Sequences, FiniteSets, TLC

(***************************************************************************)
(* Bounds of the model (not program constants).                            *)
(***************************************************************************)
\* largest number of documents the incident store holds in a run of the model
MaxIncidents == 2
\* number of documents one run of the populate script writes (1000 in the script)
PopulateCount == 1
\* number of request slots serving trigger_autonomous_workflow concurrently
MaxRuns == 2

(***************************************************************************)
(* Strings as character sequences.                                         *)
(***************************************************************************)
DigitChars == <<"0", "1", "2", "3", "4", "5", "6", "7", "8", "9">>

\* a character for which str.isdigit() is true and int() raises ValueError
SuperTwo == "^2"

\* str.isdigit() on a non-empty string
IsDigitChar(c) == (\E i \in 1..10 : DigitChars[i] = c) \/ c = SuperTwo

IsDigit(s) == Len(s) > 0 /\ \A i \in 1..Len(s) : IsDigitChar(s[i])

\* int() accepts the string (ASCII decimal digits only, in this alphabet)
IntParses(s) == Len(s) > 0 /\ \A i \in 1..Len(s) : \E d \in 1..10 : DigitChars[d] = s[i]

DigitVal(c) == (CHOOSE i \in 1..10 : DigitChars[i] = c) - 1

RECURSIVE ParseInt(_)
ParseInt(s) ==
    IF s = <<>> THEN 0
    ELSE ParseInt(SubSeq(s, 1, Len(s) - 1)) * 10 + DigitVal(s[Len(s)])

RECURSIVE FormatInt(_)
FormatInt(n) ==
    IF n < 10 THEN <<DigitChars[n + 1]>>
    ELSE FormatInt(n \div 10) \o <<DigitChars[(n % 10) + 1]>>

RECURSIVE ZeroPad(_, _)
ZeroPad(s, width) == IF Len(s) >= width THEN s ELSE ZeroPad(<<"0">> \o s, width)

\* f"{n:04d}"
Format04d(n) == ZeroPad(FormatInt(n), 4)

IncPrefix == <<"I", "N", "C", "-">>

StartsWith(s, p) == Len(s) >= Len(p) /\ SubSeq(s, 1, Len(p)) = p

\* str.split(sep) for a one-character separator
RECURSIVE Split(_, _)
Split(s, sep) ==
    IF \A i \in 1..Len(s) : s[i] # sep THEN <<s>>
    ELSE LET k == CHOOSE i \in 1..Len(s) :
                      s[i] = sep /\ \A j \in 1..(i - 1) : s[j] # sep
         IN  <<SubSeq(s, 1, k - 1)>> \o Split(SubSeq(s, k + 1, Len(s)), sep)

(***************************************************************************)
(* State.                                                                  *)
(***************************************************************************)
VARIABLES
    incidents,      \* the incident-history index: document _id (position) -> _source
    now,            \* the clock datetime.utcnow() reads when a document is created
    registered,     \* incident ids returned by successful register_incident calls, in call order
    seeded,         \* TRUE once the populate script has written to the store
    runs,           \* per request slot: the position and locals of trigger_autonomous_workflow
    workflows,      \* the pending-workflows index: document _id (position) -> _source
    approvals,      \* per request slot: the position and locals of approve_workflow
    starts,         \* per workflow document: the stored status at each start of the agent
    registrations,  \* per serving process: the position and locals of register_incident
    allocation,     \* the last direct call of generate_incident_id and what it returned
    running,        \* observer_engine.running
    loops,          \* the tasks created for ObserverEngine.start, in creation order: their position
    stopped,        \* TRUE when the last call of the observer API was POST /api/observer/stop
    detection,      \* the last call of check_metrics_anomalies: the buckets it read, the list it returned
    baseline,       \* the last call of Baseline(...): its arguments and whether an object was made
    anomaly_result, \* the last call of AnomalyResult(...): its arguments and whether an object was made
    record,         \* an IncidentRecord object (or none) and the outcome of the last construction
    activity_log,   \* the activity-log index: the entries indexed by log_activity, in order
    executions      \* the execute_function('autonomous_incident_response') calls, in start order

registryVars == <<incidents, now, registered, seeded, runs>>
approvalVars == <<workflows, approvals, starts>>

processVars == <<registrations, allocation>>

observerVars == <<running, loops, stopped>>

detectVars == <<detection>>

modelVars == <<baseline, anomaly_result, record>>

logVars == <<activity_log>>

agentVars == <<executions>>

vars == <<registryVars, approvalVars, processVars, observerVars, detectVars, modelVars, logVars,
          agentVars>>

\* what the actions of one component leave alone
notRegistryVars == <<approvalVars, processVars, observerVars, detectVars, modelVars, logVars, agentVars>>
notApprovalVars == <<registryVars, processVars, observerVars, detectVars, modelVars, logVars, agentVars>>
notProcessVars == <<registryVars, approvalVars, observerVars, detectVars, modelVars, logVars, agentVars>>
notObserverVars == <<registryVars, approvalVars, processVars, detectVars, modelVars, logVars, agentVars>>
notDetectVars == <<registryVars, processVars, observerVars, modelVars, logVars, agentVars>>
notModelVars == <<registryVars, approvalVars, processVars, observerVars, detectVars, logVars, agentVars>>
notLogVars == <<registryVars, approvalVars, processVars, observerVars, detectVars, modelVars, agentVars>>
notAgentVars == <<registryVars, approvalVars, processVars, observerVars, detectVars, modelVars, logVars>>

\* "INC-1001"
Inc1001 == IncPrefix \o <<"1", "0", "0", "1">>

(***************************************************************************)
(* generate_incident_id                                                    *)
(***************************************************************************)
\* 'size': 100 in the search body
SearchSize == 100

\* the sets of documents a match_all search sorted by created_at desc with
\* size SearchSize can return (ties in created_at are ordered arbitrarily)
RecentHits(store) ==
    IF Len(store) <= SearchSize THEN {DOMAIN store}
    ELSE {H \in SUBSET (DOMAIN store) :
            /\ Cardinality(H) = SearchSize
            /\ \A i \in H : \A j \in (DOMAIN store) \ H :
                   store[i].created_at >= store[j].created_at}

\* the number the loop body takes from one hit, or 0 when the hit is skipped
HitNumber(incident_id) ==
    IF StartsWith(incident_id, IncPrefix)
    THEN LET num_part == Split(incident_id, "-")[2]
         IN  IF Len(num_part) = 4 /\ IsDigit(num_part)
             THEN IF IntParses(num_part) THEN ParseInt(num_part) ELSE 0
             ELSE 0
    ELSE 0

\* max_num after the loop over the hits, starting from 1000
MaxNum(store, hits) ==
    LET nums == {HitNumber(store[i].id) : i \in hits} \cup {1000}
    IN  CHOOSE m \in nums : \A n \in nums : n <= m

\* generate_incident_id() given the outcome of es.search and the hits it returned
generate_incident_id(store, searchOk, hits) ==
    IF ~searchOk THEN Inc1001
    ELSE IF hits # {} THEN IncPrefix \o Format04d(MaxNum(store, hits) + 1)
    ELSE Inc1001

(***************************************************************************)
(* register_incident                                                       *)
(***************************************************************************)
NewIncident(incident_id, created_at) ==
    [id |-> incident_id, status |-> "investigating", created_at |-> created_at,
     remediation |-> "none"]

\* POST /api/incidents/register: no await inside, so the handler is one step
\* of the event loop
register_incident(searchOk, indexOk) ==
    /\ Len(incidents) < MaxIncidents
    /\ \E hits \in RecentHits(incidents) :
         LET incident_id == generate_incident_id(incidents, searchOk, hits)
         IN  IF indexOk
             THEN /\ incidents' = Append(incidents, NewIncident(incident_id, now + 1))
                  /\ registered' = Append(registered, incident_id)
                  /\ now' = now + 1
             ELSE UNCHANGED <<incidents, registered, now>>
    /\ UNCHANGED <<seeded, runs, notRegistryVars>>

(***************************************************************************)
(* register_incident served by several processes that share the store: the *)
(* search of generate_incident_id and the index call are separate requests *)
(* to the store.                                                           *)
(***************************************************************************)
\* number of serving processes
MaxProcesses == 2

Processes == 1..MaxProcesses

IdleRegistration ==
    [pc |-> "idle", incident_id |-> <<>>, searchOk |-> FALSE, read_len |-> 0, doc |-> 0]

NoAllocation == [called |-> FALSE, searchOk |-> FALSE, result |-> <<>>]

InitProcesses ==
    /\ registrations = [p \in Processes |-> IdleRegistration]
    /\ allocation = NoAllocation

\* register_incident up to the return of generate_incident_id
register_read(p, searchOk) ==
    /\ registrations[p].pc \in {"idle", "done", "error"}
    /\ Len(incidents) + Cardinality({q \in Processes : registrations[q].pc = "allocated"})
           < MaxIncidents
    /\ \E hits \in RecentHits(incidents) :
         registrations' = [registrations EXCEPT ![p] =
             [pc |-> "allocated",
              incident_id |-> generate_incident_id(incidents, searchOk, hits),
              searchOk |-> searchOk, read_len |-> Len(incidents), doc |-> 0]]
    /\ UNCHANGED <<registryVars, approvalVars, observerVars, detectVars, modelVars, logVars, agentVars, allocation>>

\* register_write, but with the id allocated again at the time of the write
register_write_Reallocating(p, indexOk) ==
    /\ registrations[p].pc = "allocated"
    /\ IF indexOk
       THEN \E hits \in RecentHits(incidents) :
              LET incident_id == generate_incident_id(incidents, registrations[p].searchOk, hits)
              IN  /\ incidents' = Append(incidents, NewIncident(incident_id, now + 1))
                  /\ registered' = Append(registered, incident_id)
                  /\ now' = now + 1
                  /\ registrations' = [registrations EXCEPT ![p].pc = "done",
                                                            ![p].doc = Len(incidents) + 1]
       ELSE /\ registrations' = [registrations EXCEPT ![p].pc = "error"]
            /\ UNCHANGED <<incidents, registered, now>>
    /\ UNCHANGED <<seeded, runs, approvalVars, observerVars, detectVars, modelVars, logVars, agentVars, allocation>>

\* register_incident from the index call to the response
register_write(p, indexOk) ==
    /\ registrations[p].pc = "allocated"
    /\ IF indexOk
       THEN /\ incidents' = Append(incidents, NewIncident(registrations[p].incident_id, now + 1))
            /\ registered' = Append(registered, registrations[p].incident_id)
            /\ now' = now + 1
            /\ registrations' = [registrations EXCEPT ![p].pc = "done",
                                                      ![p].doc = Len(incidents) + 1]
       ELSE /\ registrations' = [registrations EXCEPT ![p].pc = "error"]
            /\ UNCHANGED <<incidents, registered, now>>
    /\ UNCHANGED <<seeded, runs, approvalVars, observerVars, detectVars, modelVars, logVars, agentVars, allocation>>

\* a call of generate_incident_id on the store as it is
call_generate_incident_id(searchOk) ==
    /\ \E hits \in RecentHits(incidents) :
         allocation' = [called |-> TRUE, searchOk |-> searchOk,
                        result |-> generate_incident_id(incidents, searchOk, hits)]
    /\ UNCHANGED <<notProcessVars, registrations>>

(***************************************************************************)
(* populate_incidents_anomalies.py                                         *)
(***************************************************************************)
\* the statuses the script draws from
PopulateStatuses == {"resolved", "closed", "investigating", "in_progress"}

SeedIncident(i, status, created_at) ==
    [id |-> IncPrefix \o Format04d(i + 1), status |-> status, created_at |-> created_at,
     remediation |-> IF status \in {"resolved", "closed"} THEN "seeded" ELSE "none"]

\* one run of the script: documents i = 0 .. PopulateCount-1, each with a
\* status and a creation time in the past (now minus a random age, taken
\* here to be older than every registered incident)
populate_anomalies_and_incidents ==
    /\ Len(incidents) + PopulateCount <= MaxIncidents
    /\ \E status \in [1..PopulateCount -> PopulateStatuses] :
         incidents' = incidents \o
             [i \in 1..PopulateCount |-> SeedIncident(i - 1, status[i], 0)]
    /\ seeded' = TRUE
    /\ UNCHANGED <<now, registered, runs, notRegistryVars>>

(***************************************************************************)
(* trigger_autonomous_workflow                                             *)
(***************************************************************************)
Runs == 1..MaxRuns

\* an id no writer of the store ever allocates
UnknownId == IncPrefix \o <<"9", "9", "9", "9">>

NoIncident == [id |-> <<>>, status |-> "", created_at |-> 0, remediation |-> "none"]

IdleRun ==
    [pc |-> "idle", incident_id |-> <<>>, hit |-> 0, incident |-> NoIncident,
     workflow_steps |-> <<>>, relevant_files |-> 0, fixed_code |-> "None",
     pr_url |-> "None", http |-> 0, calls |-> <<>>, replies |-> <<>>,
     fetch |-> "none", update |-> "none",
     summary |-> [total_steps |-> 0, completed |-> 0, failed |-> 0, skipped |-> 0]]

Step(n, name) == [step |-> n, name |-> name, status |-> "in_progress"]

\* a variant that leaves the last step record as it was appended
SetLast_Unsettled(steps, status) == steps

\* workflow_steps[-1]["status"] = status
SetLast(steps, status) == [steps EXCEPT ![Len(steps)].status = status]

\* a Python value used as a condition: None and '' are false
Truthy(v) == v # "None" /\ v # ""

\* Step 4 is appended and the notification request is sent
EnterStep4(run) ==
    [run EXCEPT !.workflow_steps = Append(@, Step(4, "Slack Notification")),
                !.calls = Append(@, "slack"),
                !.pc = "await_slack"]

\* EnterStep3 without its else branch: a step that cannot run is left as it is
EnterStep3_NoSkip(run) ==
    LET r3 == [run EXCEPT !.workflow_steps = Append(@, Step(3, "GitHub PR Creation")),
                          !.pr_url = "None"]
    IN  IF Truthy(r3.fixed_code)
        THEN [r3 EXCEPT !.pc = "await_pr", !.calls = Append(@, "pr")]
        ELSE EnterStep4(r3)

\* Step 3 is appended; the PR request is sent when there is fixed code,
\* otherwise the step is skipped and the run goes on to step 4
EnterStep3(run) ==
    LET r3 == [run EXCEPT !.workflow_steps = Append(@, Step(3, "GitHub PR Creation")),
                          !.pr_url = "None"]
    IN  IF Truthy(r3.fixed_code)
        THEN [r3 EXCEPT !.pc = "await_pr", !.calls = Append(@, "pr")]
        ELSE EnterStep4([r3 EXCEPT !.workflow_steps = SetLast(@, "skipped")])

\* a variant that sends the fix request whatever code search found
EnterStep2_AlwaysFix(run) ==
    LET r2 == [run EXCEPT !.workflow_steps = Append(@, Step(2, "AI Fix Generation")),
                          !.fixed_code = "None"]
    IN  [r2 EXCEPT !.pc = "await_fix", !.calls = Append(@, "fix")]

\* Step 2 is appended; the fix request is sent when code search found files,
\* otherwise the step is skipped and the run goes on to step 3
EnterStep2(run) ==
    LET r2 == [run EXCEPT !.workflow_steps = Append(@, Step(2, "AI Fix Generation")),
                          !.fixed_code = "None"]
    IN  IF r2.relevant_files > 0
        THEN [r2 EXCEPT !.pc = "await_fix", !.calls = Append(@, "fix")]
        ELSE EnterStep3([r2 EXCEPT !.workflow_steps = SetLast(@, "skipped")])

\* Step 1: the code-repository search, which is a blocking call
Step1(run, searchOk, nfiles) ==
    LET r1 == [run EXCEPT !.workflow_steps = <<Step(1, "Code Search")>>,
                          !.calls = <<"code_search">>]
    IN  IF searchOk
        THEN [r1 EXCEPT !.relevant_files = nfiles,
                        !.replies = <<"ok">>,
                        !.workflow_steps = SetLast(@, "completed")]
        ELSE [r1 EXCEPT !.relevant_files = 0,
                        !.replies = <<"exception">>,
                        !.workflow_steps = SetLast(@, "failed")]

\* the ids a request can name
RequestIds == {incidents[i].id : i \in DOMAIN incidents} \cup {UnknownId}

\* the except clause around the fetch: every Exception, the HTTPException(404)
\* raised inside the try block included, is re-raised as HTTPException(500)
FetchError(raised) == 500

\* POST /api/incidents/trigger_workflow, up to the first await
trigger_autonomous_workflow(r, incident_id, fetchOk, searchOk, nfiles) ==
    /\ runs[r].pc \in {"idle", "done", "error"}
    /\ LET hits == {i \in DOMAIN incidents : incidents[i].id = incident_id}
           fresh == [IdleRun EXCEPT !.incident_id = incident_id]
       IN  IF ~fetchOk
           THEN runs' = [runs EXCEPT ![r] =
                            [fresh EXCEPT !.pc = "error", !.fetch = "exception",
                                          !.http = FetchError(500)]]
           ELSE IF hits = {}
           THEN runs' = [runs EXCEPT ![r] =
                            [fresh EXCEPT !.pc = "error", !.fetch = "not_found",
                                          !.http = FetchError(404)]]
           ELSE \E hit \in hits :
                  runs' = [runs EXCEPT ![r] =
                      EnterStep2(Step1([fresh EXCEPT !.hit = hit, !.incident = incidents[hit],
                                                     !.fetch = "found"],
                                       searchOk, nfiles))]
    /\ UNCHANGED <<incidents, now, registered, seeded, notRegistryVars>>

\* outcomes of POST /api/elasticseer/generate_fix: 200 with fixed code, 200
\* with fixed_code '' (the reply had no FIXED_CODE block), another status,
\* or an exception (timeout, connection error)
FixOutcomes == {"ok_code", "ok_empty", "bad_status", "exception"}

\* the fix reply arrives: step 2 is settled, step 3 starts
fix_response(r, outcome) ==
    /\ runs[r].pc = "await_fix"
    /\ LET run == [runs[r] EXCEPT !.replies = Append(@, outcome)]
           settled ==
               CASE outcome = "ok_code" ->
                      [run EXCEPT !.fixed_code = "code",
                                  !.workflow_steps = SetLast(@, "completed")]
                 [] outcome = "ok_empty" ->
                      [run EXCEPT !.fixed_code = "",
                                  !.workflow_steps = SetLast(@, "completed")]
                 [] OTHER ->
                      [run EXCEPT !.workflow_steps = SetLast(@, "failed")]
       IN  runs' = [runs EXCEPT ![r] = EnterStep3(settled)]
    /\ UNCHANGED <<incidents, now, registered, seeded, notRegistryVars>>

\* outcomes of POST /api/elasticseer/create_pr
PrOutcomes == {"ok_url", "bad_status", "exception"}

\* the URL of the pull request opened for request slot r
PrUrl(r) == "pr-" \o ToString(r)

\* the PR reply arrives: step 3 is settled, step 4 starts
pr_response(r, outcome) ==
    /\ runs[r].pc = "await_pr"
    /\ LET run == [runs[r] EXCEPT !.replies = Append(@, outcome)]
           settled ==
               IF outcome = "ok_url"
               THEN [run EXCEPT !.pr_url = PrUrl(r),
                                !.workflow_steps = SetLast(@, "completed")]
               ELSE [run EXCEPT !.workflow_steps = SetLast(@, "failed")]
       IN  runs' = [runs EXCEPT ![r] = EnterStep4(settled)]
    /\ UNCHANGED <<incidents, now, registered, seeded, notRegistryVars>>

\* outcomes of POST /api/elasticseer/send_slack
SlackOutcomes == {"ok", "bad_status", "exception"}

CountStatus(steps, status) == Cardinality({i \in DOMAIN steps : steps[i].status = status})

\* a variant whose summary does not count the skipped steps
Summary_NoSkipped(steps) ==
    [total_steps |-> Len(steps),
     completed |-> CountStatus(steps, "completed"),
     failed |-> CountStatus(steps, "failed"),
     skipped |-> 0]

\* the summary of the returned result
Summary(steps) ==
    [total_steps |-> Len(steps),
     completed |-> CountStatus(steps, "completed"),
     failed |-> CountStatus(steps, "failed"),
     skipped |-> CountStatus(steps, "skipped")]

\* a variant that marks the incident resolved
Remediated_Resolved(run) ==
    [run.incident EXCEPT !.remediation = run.pr_url, !.status = "resolved"]

\* the document the run writes back: its own copy of the incident, read at
\* the start of the run, with remediation and status set
Remediated(run) ==
    [run.incident EXCEPT !.remediation = run.pr_url, !.status = "remediating"]

\* the handler has returned: its locals are gone, the response remains
Returned(run) ==
    [IdleRun EXCEPT !.pc = "done", !.http = 200, !.incident_id = run.incident_id,
                    !.workflow_steps = run.workflow_steps, !.pr_url = run.pr_url,
                    !.relevant_files = run.relevant_files,
                    !.calls = run.calls, !.replies = run.replies,
                    !.fetch = run.fetch, !.update = run.update,
                    !.summary = Summary(run.workflow_steps)]

\* the notification reply arrives: step 4 is settled, the incident is
\* updated when a PR was opened, and the result is returned
slack_response(r, outcome, indexOk) ==
    /\ runs[r].pc = "await_slack"
    /\ LET run == [runs[r] EXCEPT !.replies = Append(@, outcome)]
           settled == [run EXCEPT !.workflow_steps =
                          SetLast(@, IF outcome = "ok" THEN "completed" ELSE "failed")]
       IN  /\ IF Truthy(settled.pr_url)
              THEN /\ incidents' = IF indexOk
                                   THEN [incidents EXCEPT ![run.hit] = Remediated(settled)]
                                   ELSE incidents
                   /\ runs' = [runs EXCEPT ![r] =
                          Returned([settled EXCEPT !.update =
                                       IF indexOk THEN "ok" ELSE "exception"])]
              ELSE /\ incidents' = incidents
                   /\ runs' = [runs EXCEPT ![r] = Returned(settled)]
    /\ UNCHANGED <<now, registered, seeded, notRegistryVars>>

(***************************************************************************)
(* Approval gate: ObserverEngine.trigger_planner_workflow creates pending  *)
(* workflows, approve_workflow approves or rejects them.                   *)
(***************************************************************************)
\* largest number of pending-workflow documents
MaxWorkflows == 2
\* number of request slots serving approve_workflow concurrently
MaxApprovals == 2

\* largest number of agent starts recorded per workflow document
MaxStarts == 2

Approvals == 1..MaxApprovals

\* agent starts of workflow document w, recorded or in flight
StartsOf(w) ==
    Len(starts[w]) + Cardinality({b \in Approvals :
                                     approvals[b].pc = "await_agent" /\ approvals[b].hit = w})

IdleApproval == [pc |-> "idle", workflow_id |-> 0, hit |-> 0, seen |-> "", http |-> 0]

InitApproval ==
    /\ workflows = <<>>
    /\ approvals = [a \in Approvals |-> IdleApproval]
    /\ starts = <<>>

\* the workflow document trigger_planner_workflow builds for an anomaly; the
\* id is "workflow-" followed by the creation timestamp
PendingWorkflow(store, anomaly) ==
    [id |-> Len(store) + 1, status |-> "pending_approval", anomaly |-> anomaly]

\* trigger_planner_workflow: the document is indexed; a failure of the index
\* call is logged and nothing is stored
trigger_planner_workflow(anomaly, indexOk) ==
    /\ Len(workflows) < MaxWorkflows
    /\ IF indexOk
       THEN /\ workflows' = Append(workflows, PendingWorkflow(workflows, anomaly))
            /\ starts' = Append(starts, <<>>)
       ELSE UNCHANGED <<workflows, starts>>
    /\ UNCHANGED <<approvals, notApprovalVars>>

\* the workflow ids a request can name: the stored ones and one that is not stored
WorkflowIds == {workflows[i].id : i \in DOMAIN workflows} \cup {0}

\* POST /api/observer/workflows/approve, up to the await of the agent call
\* (approved) or to its return (rejected)
approve_workflow(a, workflow_id, approved, searchOk, updateOk) ==
    /\ approvals[a].pc \in {"idle", "done", "error"}
    /\ LET hits == {i \in DOMAIN workflows : workflows[i].id = workflow_id}
           fresh == [IdleApproval EXCEPT !.workflow_id = workflow_id]
       IN  IF ~searchOk
           THEN /\ approvals' = [approvals EXCEPT ![a] = [fresh EXCEPT !.pc = "error", !.http = 500]]
                /\ UNCHANGED workflows
           ELSE IF hits = {}
           THEN /\ approvals' = [approvals EXCEPT ![a] = [fresh EXCEPT !.pc = "error", !.http = 404]]
                /\ UNCHANGED workflows
           ELSE \E hit \in hits :
                  IF ~updateOk
                  THEN /\ approvals' = [approvals EXCEPT ![a] =
                              [fresh EXCEPT !.pc = "error", !.http = 500]]
                       /\ UNCHANGED workflows
                  ELSE IF approved
                  THEN /\ StartsOf(hit) < MaxStarts
                       /\ workflows' = [workflows EXCEPT ![hit].status = "approved"]
                       /\ approvals' = [approvals EXCEPT ![a] =
                              [fresh EXCEPT !.pc = "await_agent", !.hit = hit,
                                            !.seen = workflows[hit].status]]
                  ELSE /\ workflows' = [workflows EXCEPT ![hit].status = "rejected"]
                       /\ approvals' = [approvals EXCEPT ![a] =
                              [fresh EXCEPT !.pc = "done", !.http = 200]]
    /\ UNCHANGED <<starts, notApprovalVars>>

\* outcomes of POST /api/agent/chat_with_reasoning: the agent ran and replied,
\* the agent was started but the reply timed out or was not JSON, or the
\* request never reached the agent
AgentOutcomes == {"ok", "timeout", "refused"}

\* the agent call ends and approve_workflow returns
agent_response(a, outcome) ==
    /\ approvals[a].pc = "await_agent"
    /\ starts' = IF outcome = "refused" THEN starts
                 ELSE [starts EXCEPT ![approvals[a].hit] = Append(@, approvals[a].seen)]
    /\ approvals' = [approvals EXCEPT ![a] =
           [IdleApproval EXCEPT !.workflow_id = approvals[a].workflow_id,
                                !.pc = IF outcome = "ok" THEN "done" ELSE "error",
                                !.http = IF outcome = "ok" THEN 200 ELSE 500]]
    /\ UNCHANGED <<workflows, notApprovalVars>>

(***************************************************************************)
(* Observer engine: start_observer, stop_observer and the monitoring loop  *)
(* of ObserverEngine.start.                                                *)
(***************************************************************************)
\* largest number of loop tasks created in a run of the model
MaxLoops == 3

\* ObserverEngine.__init__
InitObserver ==
    /\ running = FALSE
    /\ loops = <<>>
    /\ stopped = FALSE

\* the task waits in one of the two asyncio.sleep(self.check_interval) calls:
\* the one that ends the try block or the one in the except clause
Sleeping(t) == loops[t] \in {"sleeping", "sleeping_after_error"}

\* a loop task is alive from its creation until its while loop exits
Alive(t) == loops[t] = "created" \/ loops[t] = "checking" \/ Sleeping(t)

\* POST /api/observer/start: asyncio.create_task(observer_engine.start())
\* when the flag is not set; the task runs later, the flag is not touched here
start_observer ==
    /\ IF ~running
       THEN /\ Len(loops) < MaxLoops
            /\ loops' = Append(loops, "created")
       ELSE UNCHANGED loops
    /\ stopped' = FALSE
    /\ UNCHANGED <<running, notObserverVars>>

\* POST /api/observer/stop: ObserverEngine.stop
stop_observer ==
    /\ running' = FALSE
    /\ stopped' = TRUE
    /\ UNCHANGED <<loops, notObserverVars>>

\* the task starts to run: self.running = True, the while condition holds and
\* the first iteration begins
loop_start(t) ==
    /\ loops[t] = "created"
    /\ running' = TRUE
    /\ loops' = [loops EXCEPT ![t] = "checking"]
    /\ UNCHANGED <<stopped, notObserverVars>>

\* the checks of one iteration end, normally or with an exception caught by
\* the loop, and the task sleeps for check_interval
iteration_end(t, failed) ==
    /\ loops[t] = "checking"
    /\ loops' = [loops EXCEPT ![t] = IF failed THEN "sleeping_after_error" ELSE "sleeping"]
    /\ UNCHANGED <<running, stopped, notObserverVars>>

\* a variant in which the loop is left after an iteration that raised
loop_wake_ErrorEnds(t) ==
    /\ Sleeping(t)
    /\ loops' = [loops EXCEPT ![t] =
                    IF running /\ loops[t] = "sleeping" THEN "checking" ELSE "ended"]
    /\ UNCHANGED <<running, stopped, notObserverVars>>

\* the sleep ends: the while condition is tested again
loop_wake(t) ==
    /\ Sleeping(t)
    /\ loops' = [loops EXCEPT ![t] = IF running THEN "checking" ELSE "ended"]
    /\ UNCHANGED <<running, stopped, notObserverVars>>

(***************************************************************************)
(* Anomaly detection: ObserverEngine.check_metrics_anomalies.  A number    *)
(* the detector computes is a ratio num/den of integers, compared by       *)
(* cross-multiplication; a number it stores is rounded to two decimals and *)
(* kept in hundredths.                                                     *)
(***************************************************************************)
\* largest number of (service, metric) buckets one search returns
MaxBuckets == 2
MaxExecutions == 2

\* self.anomaly_threshold_sigma = 3.0
anomaly_threshold_sigma == 3

Abs(x) == IF x < 0 THEN 0 - x ELSE x

\* round(num/den, 2) in hundredths, for num >= 0 and den > 0: the nearest
\* hundredth, a tie going to the even one
Round2(num, den) ==
    LET q == (100 * num) \div den
        rem == (100 * num) % den
    IN  IF 2 * rem > den THEN q + 1
        ELSE IF 2 * rem = den THEN q + (q % 2)
        ELSE q

\* ObserverEngine._calculate_severity(sigma) for sigma = num/den, den > 0
calculate_severity(num, den) ==
    IF num >= 5 * den THEN "Sev-1"
    ELSE IF num >= 4 * den THEN "Sev-2"
    ELSE "Sev-3"

\* one bucket of the by_service_metric aggregation: its key, the count, avg
\* and std_deviation of baseline_stats, the count and max of current_stats
Bucket(key, baseline_count, avg, std_deviation, current_count, max) ==
    [key |-> key, baseline_count |-> baseline_count, avg |-> avg,
     std_deviation |-> std_deviation, current_count |-> current_count, max |-> max]

\* the buckets a search can return: one per (service, metric) key
SampleBuckets ==
    <<Bucket(1, 7, 200, 20, 1, 400),
      Bucket(2, 7, 200, 20, 1, 260),
      Bucket(3, 7, 200, 20, 1, 270),
      Bucket(4, 7, 200, 20, 1, 290),
      Bucket(5, 7, 200, 20, 1, 250),
      Bucket(6, 7, 200, 20, 1, 100),
      Bucket(7, 7, 50, 0, 1, 60),
      Bucket(8, 7, 50, 0, 1, 54),
      Bucket(9, 7, 200, 20, 0, 0),
      Bucket(10, 7, 0, 1000, 1, 4996),
      Bucket(11, 0, 0, 0, 0, 0)>>

\* the bucket lists of a search result: keys are distinct
BucketLists ==
    {[i \in 1..Len(ks) |-> SampleBuckets[ks[i]]] :
        ks \in {q \in UNION {[1..n -> DOMAIN SampleBuckets] : n \in 0..MaxBuckets} :
                   \A i, j \in DOMAIN q : i # j => q[i] # q[j]}}

\* a variant that does not look at the counts of the two windows
Emits_IgnoresCounts(bucket) ==
    /\ bucket.std_deviation > 0
    /\ Abs(bucket.max - bucket.avg) > anomaly_threshold_sigma * bucket.std_deviation

\* the loop body's test for one bucket: both windows hold data, the baseline
\* deviates, and sigma_deviation > self.anomaly_threshold_sigma
Emits(bucket) ==
    /\ bucket.baseline_count > 0 /\ bucket.current_count > 0
    /\ bucket.std_deviation > 0
    /\ Abs(bucket.max - bucket.avg) > anomaly_threshold_sigma * bucket.std_deviation

\* the anomaly dict built for a bucket that passed the test
Anomaly(bucket) ==
    [key |-> bucket.key,
     current_value |-> Round2(bucket.max, 1),
     baseline_mean |-> Round2(bucket.avg, 1),
     baseline_std |-> Round2(bucket.std_deviation, 1),
     sigma_deviation |-> Round2(Abs(bucket.max - bucket.avg), bucket.std_deviation),
     severity |-> calculate_severity(Abs(bucket.max - bucket.avg), bucket.std_deviation)]

\* the anomaly of a workflow whose detection is not followed bucket by bucket
SampleAnomaly == Anomaly(SampleBuckets[1])

\* the for loop over the buckets from bucket i on: each anomaly is appended
\* to the list and handed to trigger_planner_workflow
RECURSIVE ExamineBuckets(_, _, _, _)
ExamineBuckets(buckets, indexOk, i, acc) ==
    IF i > Len(buckets) THEN acc
    ELSE IF ~Emits(buckets[i]) THEN ExamineBuckets(buckets, indexOk, i + 1, acc)
    ELSE LET anomaly == Anomaly(buckets[i])
         IN  ExamineBuckets(buckets, indexOk, i + 1,
                 [anomalies |-> Append(acc.anomalies, anomaly),
                  workflows |-> IF indexOk[i]
                                THEN Append(acc.workflows,
                                            PendingWorkflow(acc.workflows, anomaly))
                                ELSE acc.workflows,
                  starts |-> IF indexOk[i] THEN Append(acc.starts, <<>>) ELSE acc.starts])

InitDetection ==
    detection = [called |-> FALSE, buckets |-> <<>>, anomalies |-> <<>>]

\* one call of check_metrics_anomalies; it has no await that suspends it. A
\* failure of the search is caught and an empty list is returned.
check_metrics_anomalies(buckets, searchOk, indexOk) ==
    /\ Len(workflows) + Len(buckets) <= MaxWorkflows
    /\ IF searchOk
       THEN LET out == ExamineBuckets(buckets, indexOk, 1,
                           [anomalies |-> <<>>, workflows |-> workflows, starts |-> starts])
            IN  /\ detection' = [called |-> TRUE, buckets |-> buckets,
                                 anomalies |-> out.anomalies]
                /\ workflows' = out.workflows
                /\ starts' = out.starts
       ELSE /\ detection' = [called |-> TRUE, buckets |-> <<>>, anomalies |-> <<>>]
            /\ UNCHANGED <<workflows, starts>>
    /\ UNCHANGED <<approvals, notDetectVars>>

(***************************************************************************)
(* Data models of app/models.py: Baseline, AnomalyResult, IncidentRecord.  *)
(* Construction runs the field constraints and then the model validator;   *)
(* None is the empty sequence and a set value v is <<v>>.                  *)
(***************************************************************************)
\* Baseline numbers are in thousandths; 0.01 is the validator's tolerance
ThresholdTolerance == 10

\* Field(..., ge=0) on mean, stddev and threshold
BaselineFieldsValid(mean, stddev, threshold) ==
    mean >= 0 /\ stddev >= 0 /\ threshold >= 0

\* a variant without the stddev == 0 case
validate_threshold_NoDegenerate(mean, stddev, threshold) ==
    ~(Abs(10 * threshold - 10 * (mean + 3 * stddev)) > 10 * ThresholdTolerance)

\* Baseline.validate_threshold: TRUE when it returns self, FALSE when it
\* raises; both sides of the comparison are multiplied by 10 so that
\* mean * 1.1 is exact
validate_threshold(mean, stddev, threshold) ==
    LET expected_threshold ==
            IF stddev = 0 THEN 11 * mean ELSE 10 * (mean + 3 * stddev)
    IN  ~(Abs(10 * threshold - expected_threshold) > 10 * ThresholdTolerance)

\* the arguments tried for Baseline(mean=, stddev=, threshold=)
BaselineMeans == {-1000, 0, 50000, 200000}
BaselineStddevs == {-1000, 0, 20000}
BaselineThresholds ==
    {-1000, 0, 50000, 54989, 54990, 55000, 55010, 55011, 200000, 220000,
     259989, 259990, 260000, 260010, 260011}

\* Baseline(mean=, stddev=, threshold=): an object is made or ValidationError is raised
Baseline(mean, stddev, threshold) ==
    /\ baseline' = [called |-> TRUE, mean |-> mean, stddev |-> stddev,
                    threshold |-> threshold,
                    constructed |-> /\ BaselineFieldsValid(mean, stddev, threshold)
                                    /\ validate_threshold(mean, stddev, threshold)]
    /\ UNCHANGED <<anomaly_result, record, notModelVars>>

\* class Severity
Severity == {"Sev-1", "Sev-2", "Sev-3"}

\* the field constraints of AnomalyResult: deviation_sigma ge=3.0 (in
\* hundredths), severity a member of Severity
AnomalyResultFieldsValid(deviation_sigma, severity) ==
    deviation_sigma >= 300 /\ severity \in Severity

\* a variant that follows the severities the detector assigns
validate_severity_AsDetector(deviation_sigma, severity) ==
    IF deviation_sigma >= 500 /\ severity # "Sev-1" THEN FALSE
    ELSE IF 400 <= deviation_sigma /\ deviation_sigma < 500 /\ severity # "Sev-2" THEN FALSE
    ELSE TRUE

\* AnomalyResult.validate_severity_matches_deviation: TRUE when it returns
\* self, FALSE when it raises
validate_severity_matches_deviation(deviation_sigma, severity) ==
    IF deviation_sigma >= 500 /\ severity # "Sev-1" THEN FALSE
    ELSE IF 300 <= deviation_sigma /\ deviation_sigma < 500 /\ severity # "Sev-2" THEN FALSE
    ELSE TRUE

\* the arguments tried for AnomalyResult(deviation_sigma=, severity=)
DeviationSamples == {d \in -100..1100 : d % 50 = 0 \/ d \in {299, 301, 499, 501}}
SeveritySamples == Severity \cup {"Sev-4"}

\* AnomalyResult(deviation_sigma=, severity=, ...)
AnomalyResult(deviation_sigma, severity) ==
    /\ anomaly_result' =
           [called |-> TRUE, deviation_sigma |-> deviation_sigma, severity |-> severity,
            constructed |-> /\ AnomalyResultFieldsValid(deviation_sigma, severity)
                            /\ validate_severity_matches_deviation(deviation_sigma, severity)]
    /\ UNCHANGED <<baseline, record, notModelVars>>

\* the lifecycle of models.IncidentStatus, in declaration order
IncidentStatus == <<"DETECTED", "ANALYZING", "AWAITING_APPROVAL", "REMEDIATING", "RESOLVED">>

\* the fields of an IncidentRecord the validator reads; times and mttr are in seconds
Fields(status, created_at, resolved_at, mttr, diagnosis, remediation) ==
    [status |-> status, created_at |-> created_at, resolved_at |-> resolved_at,
     mttr |-> mttr, diagnosis |-> diagnosis, remediation |-> remediation]

\* the field constraints of IncidentRecord: status a member of
\* IncidentStatus, mttr None or ge=0.0
IncidentRecordFieldsValid(f) ==
    /\ \E i \in DOMAIN IncidentStatus : IncidentStatus[i] = f.status
    /\ f.mttr # <<>> => f.mttr[1] >= 0

\* IncidentRecord.validate_incident_consistency: TRUE when it returns self
validate_incident_consistency(f) ==
    f.status = "RESOLVED" =>
        /\ f.resolved_at # <<>>
        /\ f.mttr # <<>>
        /\ LET expected_mttr == f.resolved_at[1] - f.created_at
           IN  ~(Abs(f.mttr[1] - expected_mttr) > 1)
        /\ f.diagnosis # <<>>
        /\ f.remediation # <<>>

\* the arguments tried for IncidentRecord(...)
StatusSamples == {IncidentStatus[i] : i \in DOMAIN IncidentStatus}
ResolvedAtSamples == {<<>>, <<10>>}
MttrSamples == {<<>>, <<-1>>, <<8>>, <<9>>, <<10>>, <<11>>, <<12>>}
DiagnosisSamples == {<<>>, <<"diagnosis">>}
RemediationSamples == {<<>>, <<"fix">>}

\* IncidentRecord(...): an object is made and bound, or ValidationError is
\* raised and the name keeps the object it had
IncidentRecord(status, created_at, resolved_at, mttr, diagnosis, remediation) ==
    /\ LET f == Fields(status, created_at, resolved_at, mttr, diagnosis, remediation)
       IN  IF IncidentRecordFieldsValid(f) /\ validate_incident_consistency(f)
           THEN record' = [object |-> <<f>>, raised |-> FALSE]
           ELSE record' = [object |-> record.object, raised |-> TRUE]
    /\ UNCHANGED <<baseline, anomaly_result, notModelVars>>

\* record.status = status: the model has no validate_assignment, so the
\* attribute is set and no validator runs
set_status(status) ==
    /\ record.object # <<>>
    /\ record' = [object |-> <<[record.object[1] EXCEPT !.status = status]>>,
                  raised |-> FALSE]
    /\ UNCHANGED <<baseline, anomaly_result, notModelVars>>

InitModels ==
    /\ baseline = [called |-> FALSE, mean |-> 0, stddev |-> 0, threshold |-> 0,
                   constructed |-> FALSE]
    /\ anomaly_result = [called |-> FALSE, deviation_sigma |-> 0, severity |-> "",
                         constructed |-> FALSE]
    /\ record = [object |-> <<>>, raised |-> FALSE]

(***************************************************************************)
(* Activity log: app/api/activity_log.py.                                  *)
(***************************************************************************)
InitLog == activity_log = <<>>

\* log_activity(activity_type, summary, details, status): one entry is
\* indexed; a failure of the index call is printed and nothing is stored.
\* No handler or service of the application calls it.
log_activity(activity_type, status, indexOk) ==
    /\ activity_log' = IF indexOk
                       THEN Append(activity_log,
                                   [timestamp |-> now, type |-> activity_type,
                                    user |-> "system", status |-> status])
                       ELSE activity_log
    /\ UNCHANGED notLogVars

(***************************************************************************)
(* The chat agent's complete workflow: app/api/agent_chat_gemini.py,       *)
(* execute_function, branch 'autonomous_incident_response'.  The call      *)
(* suspends at each request it awaits; Resume is the code that runs from   *)
(* one reply to the next request or to the return.                         *)
(***************************************************************************)
\* workflow_results as it is created: every step's result is None.
workflow_results ==
    [incident_registration |-> "None", code_search |-> "None", pr_creation |-> "None",
     slack_alert |-> "None", jira_ticket |-> "None"]

\* One call: the request it waits on, workflow_results, the target file,
\* the requests sent so far, the exception that ended it and the value of
\* "success" in what it returned.
Execution ==
    [pc |-> "register", results |-> workflow_results, target_file |-> "None",
     requests |-> <<"register">>, error |-> "none", success |-> "none"]

InitAgent == executions = <<>>

\* Replies to an awaited request: status 200, another status, or the
\* request raising; rows are what parse_esql_results yields for a search.
Status == {"200", "500", "exception"}
Rows == {"none", "no_file_path", "file_path"}

\* dict.get(key, default): the default is used only when the key is absent.
DictGet(d, key, default) == IF key \in DOMAIN d THEN d[key] ELSE default

\* The handler "except Exception": the call returns success False.
Raised(e, error) == [e EXCEPT !.pc = "done", !.error = error, !.success = "False"]

\* A request is sent and the call waits for its reply.
Await(e, request) == [e EXCEPT !.pc = request, !.requests = Append(@, request)]

\* Step 4 up to its request: workflow_results.get("jira_ticket", {}) and
\* .get("ticket_id") on the value found; None has no attribute get.
Step4(e) ==
    IF DictGet(e.results, "jira_ticket", "{}") = "None"
    THEN Raised(e, "AttributeError")
    ELSE Await(e, "slack")

Outcome(status) == IF status = "200" THEN "success" ELSE "failure"

\* The code between the reply to the awaited request and the next request.
Resume(e, status, rows) ==
    IF status = "exception" THEN Raised(e, "request")
    ELSE CASE e.pc = "register" ->
                IF status = "200"
                THEN Await([e EXCEPT !.results.incident_registration = "success"], "search")
                ELSE [e EXCEPT !.pc = "done", !.success = "False"]
           [] e.pc = "search" ->
                IF status = "200" /\ rows = "file_path"
                THEN Await([e EXCEPT !.results.code_search = "success",
                                     !.target_file = "file_path"], "incident")
                ELSE Step4([e EXCEPT !.results.code_search =
                                          IF status = "200" /\ rows = "no_file_path"
                                          THEN "success" ELSE "failure",
                                     !.results.pr_creation = "failure"])
           [] e.pc = "incident" -> Await(e, "fix")
           [] e.pc = "fix" ->
                IF status = "200"
                THEN Await(e, "pr")
                ELSE Step4([e EXCEPT !.results.pr_creation = "failure"])
           [] e.pc = "pr" -> Step4([e EXCEPT !.results.pr_creation = Outcome(status)])
           [] e.pc = "slack" ->
                Await([e EXCEPT !.results.slack_alert = Outcome(status)], "jira")
           [] e.pc = "jira" ->
                [e EXCEPT !.results.jira_ticket = Outcome(status),
                          !.pc = "done", !.success = "True"]

\* A call starts: workflow_results is created and the registration is posted.
execute_function ==
    /\ Len(executions) < MaxExecutions
    /\ executions' = Append(executions, Execution)
    /\ UNCHANGED notAgentVars

\* The awaited request of call c is answered and the call runs on.
resume(c, status, rows) ==
    /\ executions[c].pc # "done"
    /\ executions' = [executions EXCEPT ![c] = Resume(@, status, rows)]
    /\ UNCHANGED notAgentVars

NextAgent ==
    \/ execute_function
    \/ \E c \in DOMAIN executions : \E status \in Status : \E rows \in Rows :
          resume(c, status, rows)

(***************************************************************************)
(* Specification of the incident registry and the remediation pipeline,    *)
(* one trigger_workflow request at a time.                                 *)
(***************************************************************************)
Init ==
    /\ incidents = <<>>
    /\ now = 0
    /\ registered = <<>>
    /\ seeded = FALSE
    /\ runs = [r \in Runs |-> IdleRun]
    /\ InitApproval
    /\ InitProcesses
    /\ InitObserver
    /\ InitDetection
    /\ InitModels
    /\ InitLog
    /\ InitAgent

Next ==
    \/ \E searchOk \in BOOLEAN, indexOk \in BOOLEAN : register_incident(searchOk, indexOk)
    \/ populate_anomalies_and_incidents
    \/ \E incident_id \in RequestIds, fetchOk \in BOOLEAN,
          searchOk \in BOOLEAN, nfiles \in 0..1 :
         trigger_autonomous_workflow(1, incident_id, fetchOk, searchOk, nfiles)
    \/ \E outcome \in FixOutcomes : fix_response(1, outcome)
    \/ \E outcome \in PrOutcomes : pr_response(1, outcome)
    \/ \E outcome \in SlackOutcomes, indexOk \in BOOLEAN :
         slack_response(1, outcome, indexOk)

Spec == Init /\ [][Next]_vars

(***************************************************************************)
(* Specification with overlapping trigger_workflow requests: the handler   *)
(* suspends at each await, and the event loop then serves other requests.  *)
(***************************************************************************)
NextConcurrent ==
    \/ \E searchOk \in BOOLEAN, indexOk \in BOOLEAN : register_incident(searchOk, indexOk)
    \/ \E r \in Runs, incident_id \in RequestIds, fetchOk \in BOOLEAN,
          searchOk \in BOOLEAN, nfiles \in 0..1 :
         trigger_autonomous_workflow(r, incident_id, fetchOk, searchOk, nfiles)
    \/ \E r \in Runs, outcome \in FixOutcomes : fix_response(r, outcome)
    \/ \E r \in Runs, outcome \in PrOutcomes : pr_response(r, outcome)
    \/ \E r \in Runs, outcome \in SlackOutcomes, indexOk \in BOOLEAN :
         slack_response(r, outcome, indexOk)

SpecConcurrent == Init /\ [][NextConcurrent]_vars

(***************************************************************************)
(* Claims about the remediation pipeline and the incident lifecycle.       *)
(***************************************************************************)
TerminalStatuses == {"completed", "failed", "skipped"}

\* C1: a run on a stored incident never aborts, whatever the collaborators
\* answer: a run ends in an error only at the fetch, before any step, and a
\* run that returns carries exactly four step records, every one of them
\* completed, failed or skipped.
C1_PipelineNeverAborts ==
    \A r \in Runs :
        /\ runs[r].pc = "error" => runs[r].workflow_steps = <<>>
        /\ runs[r].pc = "done" =>
              /\ runs[r].http = 200
              /\ Len(runs[r].workflow_steps) = 4
              /\ \A i \in 1..4 : runs[r].workflow_steps[i].status \in TerminalStatuses

\* a run has returned although code search, PR creation and notification failed
\* or were left out
C1_Witness ==
    \E r \in Runs :
        /\ runs[r].pc = "done"
        /\ runs[r].workflow_steps[1].status = "failed"
        /\ runs[r].workflow_steps[3].status = "skipped"
        /\ runs[r].workflow_steps[4].status = "failed"

\* a run is active from its first await until it returns
Active(r) == runs[r].pc \in {"await_fix", "await_pr", "await_slack"}

\* C4: no two pipeline runs for the same incident are active at the same time.
C4_OneActiveRunPerIncident ==
    \A r1 \in Runs, r2 \in Runs :
        (r1 # r2 /\ Active(r1) /\ Active(r2)) => runs[r1].incident_id # runs[r2].incident_id

\* the spelling of a lifecycle state in the documents of the store
Stored(status) ==
    CASE status = "DETECTED" -> "detected"
      [] status = "ANALYZING" -> "analyzing"
      [] status = "AWAITING_APPROVAL" -> "awaiting_approval"
      [] status = "REMEDIATING" -> "remediating"
      [] status = "RESOLVED" -> "resolved"

LifecycleEdges ==
    {<<Stored(IncidentStatus[k]), Stored(IncidentStatus[k + 1])>> : k \in 1..(Len(IncidentStatus) - 1)}

\* C5: every change of a stored incident's status follows one edge of the
\* lifecycle; in particular an incident becomes remediating only from
\* awaiting_approval.
C5_StatusFollowsLifecycle ==
    [][\A i \in DOMAIN incidents :
           (i \in DOMAIN incidents' /\ incidents'[i].status # incidents[i].status)
               => <<incidents[i].status, incidents'[i].status>> \in LifecycleEdges]_vars

\* C6: a stored incident whose status is resolved is never changed again.
C6_ResolvedIsTerminal ==
    [][\A i \in DOMAIN incidents :
           incidents[i].status = "resolved"
               => (i \in DOMAIN incidents' /\ incidents'[i] = incidents[i])]_vars

\* C7: starting from an empty store and with registrations only, the k-th
\* successful register_incident call is given INC-(1000+k), and no two stored
\* documents share an id.
C7_SequentialIdsGapFree ==
    ~seeded =>
        /\ \A k \in 1..Len(registered) : registered[k] = IncPrefix \o Format04d(1000 + k)
        /\ \A i \in DOMAIN incidents, j \in DOMAIN incidents :
               i # j => incidents[i].id # incidents[j].id

\* the declared order of the pipeline's steps
StepNames == <<"Code Search", "AI Fix Generation", "GitHub PR Creation", "Slack Notification">>

\* the collaborator each step calls, in the declared order
StepCalls == <<"code_search", "fix", "pr", "slack">>

\* position of a collaborator in the declared order
CallRank(c) == CHOOSE i \in DOMAIN StepCalls : StepCalls[i] = c

\* C17: the steps of a run are recorded as 1..4 in the declared order, the
\* collaborators are called in that order, only the last recorded step can be
\* in progress, and an output (relevant files, fixed code, PR URL) is set only
\* once its step has completed.
C17_StepsInDeclaredOrder ==
    \A r \in DOMAIN runs :
        LET run == runs[r]
            steps == run.workflow_steps
        IN  /\ Len(steps) <= Len(StepNames)
            /\ \A i \in DOMAIN steps :
                   /\ steps[i].step = i
                   /\ steps[i].name = StepNames[i]
                   /\ i < Len(steps) => steps[i].status \in TerminalStatuses
            /\ \A i, j \in DOMAIN run.calls :
                   i < j => CallRank(run.calls[i]) < CallRank(run.calls[j])
            /\ \A i \in DOMAIN run.calls :
                   /\ CallRank(run.calls[i]) <= Len(steps)
                   /\ \A k \in 1..(CallRank(run.calls[i]) - 1) :
                          steps[k].status \in TerminalStatuses
            /\ run.relevant_files > 0 => steps[1].status = "completed"
            /\ Truthy(run.fixed_code) =>
                   Len(steps) >= 2 /\ steps[2].status = "completed"
            /\ Truthy(run.pr_url) =>
                   Len(steps) >= 3 /\ steps[3].status = "completed"

\* a run has returned after calling all four collaborators
C17_Witness ==
    \E r \in DOMAIN runs :
        /\ runs[r].pc = "done"
        /\ runs[r].calls = StepCalls
        /\ Truthy(runs[r].pr_url)

\* C18: in every returned result the summary's completed, failed and skipped
\* counts add up to total_steps, which is the number of step records.
C18_SummaryCountsAddUp ==
    \A r \in DOMAIN runs :
        runs[r].pc = "done" =>
            LET summary == runs[r].summary
            IN  /\ summary.completed + summary.failed + summary.skipped
                       = summary.total_steps
                /\ summary.total_steps = Len(runs[r].workflow_steps)

\* a run has returned with a failed step, a skipped step and a completed step
C18_Witness ==
    \E r \in DOMAIN runs :
        /\ runs[r].pc = "done"
        /\ runs[r].summary.failed >= 1
        /\ runs[r].summary.skipped >= 1
        /\ runs[r].summary.completed >= 1

\* code search answered and found no file
ZeroFiles(run) ==
    /\ run.calls # <<>>
    /\ run.replies[1] = "ok"
    /\ run.relevant_files = 0

\* C19: when code search finds no file, steps 2 and 3 are skipped without
\* the fix or PR collaborator being called, the notification is sent, and
\* step 4 is completed when the notification is answered successfully.
C19_ZeroFilesSkipsFixAndPr ==
    \A r \in DOMAIN runs :
        LET run == runs[r]
            steps == run.workflow_steps
        IN  ZeroFiles(run) =>
                /\ Len(steps) = 4
                /\ steps[2].status = "skipped"
                /\ steps[3].status = "skipped"
                /\ run.calls = <<"code_search", "slack">>
                /\ (run.pc = "done" /\ run.replies[Len(run.replies)] = "ok")
                       => steps[4].status = "completed"

\* a run that found no file has returned after a successful notification
C19_Witness ==
    \E r \in DOMAIN runs :
        /\ ZeroFiles(runs[r])
        /\ runs[r].pc = "done"
        /\ runs[r].replies = <<"ok", "ok">>
        /\ runs[r].workflow_steps[4].status = "completed"

\* C27: a completed Fix Generation step is followed by a PR Creation step
\* that is completed or failed, and PR Creation is skipped only after a
\* skipped or failed Fix Generation.
C27_CompletedFixReachesPr ==
    \A r \in DOMAIN runs :
        LET steps == runs[r].workflow_steps
        IN  (Len(steps) >= 3 /\ steps[3].status \in TerminalStatuses) =>
                /\ steps[2].status = "completed"
                       => steps[3].status \in {"completed", "failed"}
                /\ steps[3].status = "skipped"
                       => steps[2].status \in {"skipped", "failed"}

\* the step in which run r settles the notification, updates the incident
\* and returns
Returns(r) == runs[r].pc = "await_slack" /\ runs'[r].pc = "done"

\* no stored incident becomes resolved in this step
NoneBecomesResolved ==
    \A i \in DOMAIN incidents :
        incidents'[i].status = "resolved" => incidents[i].status = "resolved"

\* C29 as stated: when the run returns, the stored incident has the PR URL
\* as remediation and status remediating if a PR URL was obtained, the store
\* is unchanged otherwise, and no incident becomes resolved.
C29_UpdatedIffPrUrl ==
    [][\A r \in DOMAIN runs :
          Returns(r) =>
              /\ IF Truthy(runs[r].pr_url)
                 THEN /\ incidents'[runs[r].hit].remediation = runs[r].pr_url
                      /\ incidents'[runs[r].hit].status = "remediating"
                 ELSE incidents' = incidents
              /\ NoneBecomesResolved]_vars

\* C29 amended: the incident update is attempted if and only if a PR URL was
\* obtained; when the index call succeeds the stored incident gets the PR URL
\* as remediation and status remediating and nothing else changes, when it
\* fails or no PR URL was obtained the store is unchanged; no incident
\* becomes resolved.
C29_UpdatedIffPrUrlAndIndexed ==
    [][\A r \in DOMAIN runs :
          Returns(r) =>
              /\ runs'[r].update # "none" <=> Truthy(runs[r].pr_url)
              /\ IF runs'[r].update = "ok"
                 THEN incidents' = [incidents EXCEPT
                                       ![runs[r].hit].remediation = runs[r].pr_url,
                                       ![runs[r].hit].status = "remediating"]
                 ELSE incidents' = incidents
              /\ NoneBecomesResolved]_vars

\* a run that obtained a PR URL has returned and the stored incident carries
\* the URL and status remediating
C29_Witness ==
    \E r \in DOMAIN runs :
        /\ runs[r].pc = "done"
        /\ runs[r].update = "ok"
        /\ \E i \in DOMAIN incidents :
               /\ incidents[i].id = runs[r].incident_id
               /\ incidents[i].remediation = runs[r].pr_url
               /\ incidents[i].status = "remediating"

\* C30: a request for an incident id that is not in the store ends with
\* HTTP 404, with no step recorded and no collaborator called.
C30_UnknownIncidentIsNotFound ==
    \A r \in DOMAIN runs :
        runs[r].fetch = "not_found" =>
            /\ runs[r].http = 404
            /\ runs[r].workflow_steps = <<>>
            /\ runs[r].calls = <<>>

\* C24: when a run has returned n step records, the activity log holds at
\* least n entries.
C24_StepsAreLogged ==
    \A r \in DOMAIN runs :
        runs[r].pc = "done" => Len(activity_log) >= Len(runs[r].workflow_steps)

(***************************************************************************)
(* Specification of the approval gate.                                     *)
(***************************************************************************)
NextApproval ==
    \/ \E indexOk \in BOOLEAN : trigger_planner_workflow(SampleAnomaly, indexOk)
    \/ \E a \in Approvals, workflow_id \in WorkflowIds, approved \in BOOLEAN,
          searchOk \in BOOLEAN, updateOk \in BOOLEAN :
         approve_workflow(a, workflow_id, approved, searchOk, updateOk)
    \/ \E a \in Approvals, outcome \in AgentOutcomes : agent_response(a, outcome)

SpecApproval == Init /\ [][NextApproval]_vars

\* C2: the agent (the remediation pipeline) is started by an approval only
\* when the stored status of the workflow was pending_approval at that call.
C2_StartOnlyFromPending ==
    \A w \in DOMAIN starts : \A k \in DOMAIN starts[w] : starts[w][k] = "pending_approval"

\* C3: over any sequence of approvals of one workflow the pipeline is started
\* at most once.
C3_ApproveIdempotent ==
    \A w \in DOMAIN starts : Len(starts[w]) <= 1

\* the statuses a decided workflow document carries
DecidedStatuses == {"approved", "rejected"}

\* C20: once the stored status of a workflow is approved or rejected, no
\* later approve or reject call changes it.
C20_DecidedStatusIsFinal ==
    [][\A w \in DOMAIN workflows :
          workflows[w].status \in DecidedStatuses
              => workflows'[w].status = workflows[w].status]_vars

(***************************************************************************)
(* Specification of registration by concurrent serving processes.          *)
(***************************************************************************)
NextRegister ==
    \/ \E p \in Processes, searchOk \in BOOLEAN : register_read(p, searchOk)
    \/ \E p \in Processes, indexOk \in BOOLEAN : register_write(p, indexOk)

SpecRegister == Init /\ [][NextRegister]_vars

\* both processes have registered, and each had read the store before the
\* other wrote
ReadSameStore(p, q) ==
    /\ p # q
    /\ registrations[p].pc = "done"
    /\ registrations[q].pc = "done"
    /\ registrations[p].searchOk
    /\ registrations[q].searchOk
    /\ registrations[p].read_len = registrations[q].read_len

MaxStore == 2

\* ids the writers of the store produce: register_incident (INC-1001, ...,
\* and INC-10000 after INC-9999), populate_incidents_anomalies.py (INC-0001
\* to INC-1000) and populate_comprehensive_data.py (INC-001 to INC-006)
SampleIds ==
    { IncPrefix \o <<"1", "0", "0", "1">>,
      IncPrefix \o <<"1", "0", "0", "2">>,
      IncPrefix \o <<"9", "9", "9", "9">>,
      IncPrefix \o <<"1", "0", "0", "0", "0">>,
      IncPrefix \o <<"0", "0", "0", "7">>,
      IncPrefix \o <<"1", "0", "0", "0">>,
      IncPrefix \o <<"0", "0", "6">> }

SampleStores ==
    UNION {[1..n -> SampleIds] : n \in 0..MaxStore}

InitGenId ==
    /\ \E ids \in SampleStores :
         incidents = [i \in DOMAIN ids |->
                         [id |-> ids[i], status |-> "investigating", created_at |-> i,
                          remediation |-> "none"]]
    /\ now = MaxStore
    /\ registered = <<>>
    /\ seeded = FALSE
    /\ runs = [r \in Runs |-> IdleRun]
    /\ InitApproval
    /\ InitProcesses
    /\ InitObserver
    /\ InitDetection
    /\ InitModels
    /\ InitLog
    /\ InitAgent

NextGenId == \E searchOk \in BOOLEAN : call_generate_incident_id(searchOk)

SpecGenId == InitGenId /\ [][NextGenId]_vars

\* an id of the shape INC-dddd
WellFormedId(id) ==
    /\ Len(id) = 8
    /\ SubSeq(id, 1, 4) = IncPrefix
    /\ \A i \in 5..8 : \E d \in 1..10 : DigitChars[d] = id[i]

\* the number written by the four digits of a well-formed id
Suffix(id) ==
    1000 * DigitVal(id[5]) + 100 * DigitVal(id[6]) + 10 * DigitVal(id[7]) + DigitVal(id[8])

\* C8: generate_incident_id returns INC-(m+1), m the largest suffix of the
\* well-formed ids in the store, and INC-1001 on an empty store.
C8_NextIdIsMaxPlusOne ==
    allocation.called =>
        LET wellFormed == {i \in DOMAIN incidents : WellFormedId(incidents[i].id)}
        IN  /\ incidents = <<>> => allocation.result = Inc1001
            /\ wellFormed # {} =>
                 \E i \in wellFormed :
                    /\ \A j \in wellFormed : Suffix(incidents[j].id) <= Suffix(incidents[i].id)
                    /\ allocation.result = IncPrefix \o Format04d(Suffix(incidents[i].id) + 1)

\* C28: on a store whose ids are INC-1000 to INC-9999, the id allocated is
\* INC- followed by exactly four decimal digits.
C28_AllocatedIdHasFourDigits ==
    (/\ allocation.called
     /\ \A i \in DOMAIN incidents :
            /\ WellFormedId(incidents[i].id)
            /\ Suffix(incidents[i].id) \in 1000..9999)
        => WellFormedId(allocation.result)

(***************************************************************************)
(* Specification of the observer engine.                                   *)
(***************************************************************************)
NextObserver ==
    \/ start_observer
    \/ stop_observer
    \/ \E t \in DOMAIN loops : loop_start(t)
    \/ \E t \in DOMAIN loops, failed \in BOOLEAN : iteration_end(t, failed)
    \/ \E t \in DOMAIN loops : loop_wake(t)

SpecObserver == Init /\ [][NextObserver]_vars

\* C10: at most one monitoring loop is alive, and at most one iteration is in
\* progress.
C10_SingleMonitoringLoop ==
    /\ Cardinality({t \in DOMAIN loops : Alive(t)}) <= 1
    /\ Cardinality({t \in DOMAIN loops : loops[t] = "checking"}) <= 1

(***************************************************************************)
(* Specification of the anomaly detector.                                  *)
(***************************************************************************)
NextDetect ==
    \/ \E buckets \in BucketLists :
          \E indexOk \in [DOMAIN buckets -> BOOLEAN] :
              check_metrics_anomalies(buckets, TRUE, indexOk)
    \/ check_metrics_anomalies(<<>>, FALSE, <<>>)

SpecDetect == Init /\ [][NextDetect]_vars

\* the anomalies emitted so far: those the last call returned and those
\* stored in pending workflows
EmittedAnomalies ==
    {detection.anomalies[i] : i \in DOMAIN detection.anomalies}
        \cup {workflows[w].anomaly : w \in DOMAIN workflows}

\* C11: every emitted anomaly has severity Sev-1 when its deviation is at
\* least 5.0, Sev-2 when it is in [3.0, 5.0), and no other severity.
C11_EmittedSeverityMatchesDeviation ==
    \A anomaly \in EmittedAnomalies :
        /\ anomaly.sigma_deviation >= 500 => anomaly.severity = "Sev-1"
        /\ (300 <= anomaly.sigma_deviation /\ anomaly.sigma_deviation < 500)
               => anomaly.severity = "Sev-2"
        /\ anomaly.severity \in {"Sev-1", "Sev-2"}

\* the last call returned an anomaly for this bucket
Emitted(bucket) ==
    \E i \in DOMAIN detection.anomalies : detection.anomalies[i].key = bucket.key

NonEmpty(bucket) == bucket.baseline_count > 0 /\ bucket.current_count > 0

\* C12: a bucket with data in both windows and a baseline stddev > 0 is
\* emitted if and only if |current_max - baseline_mean| / stddev >= 3.0.
C12_EmitsFromThreeSigma ==
    \A i \in DOMAIN detection.buckets :
        LET bucket == detection.buckets[i]
        IN  (NonEmpty(bucket) /\ bucket.std_deviation > 0) =>
                (Emitted(bucket) <=>
                    Abs(bucket.max - bucket.avg) >= 3 * bucket.std_deviation)

\* C13: a bucket whose baseline stddev is 0 is emitted exactly when
\* current_max exceeds mean * 1.1.
C13_DegenerateThreshold ==
    \A i \in DOMAIN detection.buckets :
        LET bucket == detection.buckets[i]
        IN  (NonEmpty(bucket) /\ bucket.std_deviation = 0) =>
                (Emitted(bucket) <=> 10 * bucket.max > 11 * bucket.avg)

\* C23: a bucket whose baseline or current window is empty yields no anomaly
\* and no pending workflow, and the other buckets of the same search result
\* are still examined.
C23_EmptyWindowIsSkipped ==
    /\ \A i \in DOMAIN detection.buckets :
           ~NonEmpty(detection.buckets[i]) => ~Emitted(detection.buckets[i])
    /\ \A w \in DOMAIN workflows : \A k \in DOMAIN SampleBuckets :
           SampleBuckets[k].key = workflows[w].anomaly.key => NonEmpty(SampleBuckets[k])
    /\ \A i, j \in DOMAIN detection.buckets :
           (~NonEmpty(detection.buckets[i]) /\ Emits(detection.buckets[j]))
               => Emitted(detection.buckets[j])

\* a search returned a bucket with an empty window followed by a bucket that
\* was emitted and stored in a pending workflow
C23_Witness ==
    /\ Len(detection.buckets) >= 2
    /\ ~NonEmpty(detection.buckets[1])
    /\ Emitted(detection.buckets[2])
    /\ \E w \in DOMAIN workflows :
           workflows[w].anomaly.key = detection.buckets[2].key

\* C25: a call of check_metrics_anomalies leaves the pending-workflows and
\* incident stores as they were.
C25_DetectionLeavesStoresUnchanged ==
    [][detection' # detection => (workflows' = workflows /\ incidents' = incidents)]_vars

(***************************************************************************)
(* Specifications of the data models: each one calls one constructor with  *)
(* every combination of the sample arguments.                              *)
(***************************************************************************)
NextBaseline ==
    \E mean \in BaselineMeans, stddev \in BaselineStddevs, threshold \in BaselineThresholds :
        Baseline(mean, stddev, threshold)

SpecBaseline == Init /\ [][NextBaseline]_vars

\* what the claim requires of a Baseline, in thousandths
BaselineConsistent(b) ==
    /\ b.mean >= 0 /\ b.stddev >= 0 /\ b.threshold >= 0
    /\ b.stddev > 0 =>
           Abs(b.threshold - (b.mean + 3 * b.stddev)) <= ThresholdTolerance
    /\ b.stddev = 0 =>
           Abs(10 * b.threshold - 11 * b.mean) <= 10 * ThresholdTolerance

\* C15: a Baseline is constructed exactly when mean, stddev and threshold
\* are non-negative and threshold is mean + 3*stddev for stddev > 0 and
\* mean * 1.1 for stddev = 0, within the tolerance of 0.01.
C15_BaselineThresholdConsistent ==
    baseline.called => (baseline.constructed <=> BaselineConsistent(baseline))

\* a Baseline with stddev 0 and threshold mean * 1.1 has been constructed
C15_Witness ==
    /\ baseline.called /\ baseline.constructed
    /\ baseline.stddev = 0 /\ baseline.mean = 50000 /\ baseline.threshold = 55000

NextAnomalyResult ==
    \E deviation_sigma \in DeviationSamples, severity \in SeveritySamples :
        AnomalyResult(deviation_sigma, severity)

SpecAnomalyResult == Init /\ [][NextAnomalyResult]_vars

\* what the claim requires of an AnomalyResult, the deviation in hundredths
AnomalyResultConsistent(a) ==
    /\ a.deviation_sigma >= 300
    /\ a.deviation_sigma >= 500 => a.severity = "Sev-1"
    /\ (300 <= a.deviation_sigma /\ a.deviation_sigma < 500) => a.severity = "Sev-2"

\* C16: an AnomalyResult is constructed exactly when its deviation is at
\* least 3.0 and its severity is Sev-1 for a deviation of at least 5.0 and
\* Sev-2 for a deviation in [3.0, 5.0).
C16_AnomalyResultSeverityConsistent ==
    anomaly_result.called =>
        (anomaly_result.constructed <=> AnomalyResultConsistent(anomaly_result))

\* an AnomalyResult with a deviation of exactly 3.0 and Sev-2 has been constructed
C16_Witness ==
    /\ anomaly_result.called /\ anomaly_result.constructed
    /\ anomaly_result.deviation_sigma = 300 /\ anomaly_result.severity = "Sev-2"

NextIncidentRecord ==
    \/ \E status \in StatusSamples, resolved_at \in ResolvedAtSamples, mttr \in MttrSamples,
          diagnosis \in DiagnosisSamples, remediation \in RemediationSamples :
         IncidentRecord(status, 0, resolved_at, mttr, diagnosis, remediation)
    \/ \E status \in StatusSamples : set_status(status)

SpecIncidentRecord == Init /\ [][NextIncidentRecord]_vars

\* C14: an IncidentRecord with status RESOLVED has resolved_at, mttr within
\* one second of resolved_at - created_at, diagnosis and remediation.
C14_ResolvedRecordIsComplete ==
    record.object # <<>> =>
        LET r == record.object[1]
        IN  r.status = "RESOLVED" =>
                /\ r.resolved_at # <<>>
                /\ r.mttr # <<>>
                /\ r.diagnosis # <<>>
                /\ r.remediation # <<>>
                /\ (r.resolved_at # <<>> /\ r.mttr # <<>>) =>
                       Abs(r.mttr[1] - (r.resolved_at[1] - r.created_at)) <= 1

(***************************************************************************)
(* The observer engine with the event loop running: a sleep that has       *)
(* started ends, and a task that was created gets its first step.          *)
(***************************************************************************)
SpecObserverFair ==
    /\ Init
    /\ [][NextObserver]_vars
    /\ \A t \in 1..MaxLoops :
           /\ WF_vars(t \in DOMAIN loops /\ loop_wake(t))
           /\ WF_vars(t \in DOMAIN loops /\ loop_start(t))

AfterError(t) == t \in DOMAIN loops /\ loops[t] = "sleeping_after_error"

Checking(t) == t \in DOMAIN loops /\ loops[t] = "checking"

\* C21: a loop whose iteration raised starts its next iteration after the
\* sleep, unless the running flag has been cleared by a stop.
C21_ErrorDoesNotEndLoop ==
    \A t \in 1..MaxLoops : AfterError(t) ~> (Checking(t) \/ ~running)

\* a loop sleeps after an iteration that raised, and no stop is pending
C21_Witness ==
    \E t \in DOMAIN loops : loops[t] = "sleeping_after_error" /\ running /\ ~stopped

\* C22: while the last call was a stop, no loop begins an iteration.
C22_NoIterationAfterStop ==
    [][(stopped /\ stopped') =>
          \A t \in DOMAIN loops : loops'[t] = "checking" => loops[t] = "checking"]_vars

(***************************************************************************)
(* Specification of the chat agent's complete workflow.                    *)
(***************************************************************************)
SpecAgent == Init /\ [][NextAgent]_vars

\* C26: a call that registered the incident and in which no request raised
\* has sent the Slack and then the Jira request, returns success and holds
\* a result for each of the five steps.
C26_RegisteredCallCompletes ==
    \A c \in DOMAIN executions :
        LET e == executions[c] IN
        (e.pc = "done" /\ e.results.incident_registration = "success" /\ e.error # "request")
            => /\ e.success = "True"
               /\ \A k \in DOMAIN e.results : e.results[k] # "None"
               /\ \E i, j \in DOMAIN e.requests :
                     i < j /\ e.requests[i] = "slack" /\ e.requests[j] = "jira"

====
